---- MODULE Spec2Model ----
(***************************************************************************)
(* A model of solver.py: the N-puzzle solvability check (is_solvable),     *)
(* the State class with its lazily cached, incrementally updated score,    *)
(* and the A* search of solve with its open list, closed list and          *)
(* make_path.                                                              *)
(*                                                                         *)
(* Python lists are 0-based; sequences here are 1-based, so the value at   *)
(* Python index k is seq[k + 1].  All index arithmetic of the source       *)
(* (index, from_index, the distance formulas) is kept 0-based.             *)
(***************************************************************************)
EXTENDS Integers, Sequences, FiniteSets, TLC

VARIABLES
    puzzle_data,   \* solve's argument: a sequence of rows
    pc,            \* where solve is: "solve", "loop", or how it returned
    i,             \* the iteration counter (line 155)
    closed_list,   \* dict State -> predecessor (line 157)
    open_list,     \* heap of (f, g, i, state, prev) (line 159)
    active,        \* loop locals of line 162
    prev,
    dist,
    result,        \* the returned value: {} is None, {path} is a list
    objs,          \* the State objects of the State-operations specification
    bufOf,         \* for each of them, which list object its flat attribute is
    nops,          \* how many State operations were applied to them
    fromSolved,    \* whether the shuffle began at the solved grid
    nmoves         \* the number of shuffle moves made so far, modulo 2

vars == <<puzzle_data, pc, i, closed_list, open_list, active, prev, dist,
          result, objs, bufOf, nops, fromSolved, nmoves>>

\* Grids of at most MaxCells cells are given to solve and shuffled.
MaxCells == 6

\* The State operations are tried on grids of at most MaxOpCells cells, on at
\* most MaxObjs objects, in runs of at most MaxOps operations.
MaxOpCells == 4
MaxObjs == 2
MaxOps == 4

----------------------------------------------------------------------------
(* Plain helpers for Python list operations                                *)

Abs(x) == IF x < 0 THEN -x ELSE x

RECURSIVE SumSeq(_)
SumSeq(s) == IF s = <<>> THEN 0 ELSE Head(s) + SumSeq(Tail(s))

\* [item for row in puzzle_data for item in row]
RECURSIVE Flatten(_)
Flatten(rows) == IF rows = <<>> THEN <<>> ELSE Head(rows) \o Flatten(Tail(rows))

\* list.remove(x): drops the first occurrence of x
RECURSIVE ListRemove(_, _)
ListRemove(s, x) ==
    IF s = <<>> THEN <<>>
    ELSE IF Head(s) = x THEN Tail(s)
    ELSE <<Head(s)>> \o ListRemove(Tail(s), x)

\* list.index(x): 0-based position of the first occurrence of x
ListIndex(s, x) == (CHOOSE k \in 1..Len(s) : s[k] = x /\ \A m \in 1..(k-1) : s[m] # x) - 1

\* list.count(x)
ListCount(s, x) == Cardinality({k \in 1..Len(s) : s[k] = x})

RECURSIVE Reverse(_)
Reverse(s) == IF s = <<>> THEN <<>> ELSE Reverse(Tail(s)) \o <<Head(s)>>


----------------------------------------------------------------------------
(* is_solvable, lines 4-27                                                 *)

\* lines 9-13: note that j starts at i, not i + 1
Inversions(flat) ==
    Cardinality({p \in (1..Len(flat)) \X (1..Len(flat)) :
                    p[1] <= p[2] /\ flat[p[2]] < flat[p[1]]})

\* lines 20-24: first row holding a 0, -1 when there is none (0-based)
BlankRow(pd) ==
    IF \E r \in 1..Len(pd) : ListCount(pd[r], 0) > 0
    THEN (CHOOSE r \in 1..Len(pd) :
            ListCount(pd[r], 0) > 0 /\ \A q \in 1..(r-1) : ListCount(pd[q], 0) = 0) - 1
    ELSE -1

\* A variant of is_solvable that adds the blank's row counted from the top.
is_solvable_rowFromTop(pd) ==
    LET inversions == Inversions(ListRemove(Flatten(pd), 0))
    IN  IF Len(pd[1]) % 2 = 1
        THEN inversions % 2 = 0
        ELSE (inversions + BlankRow(pd)) % 2 = 0

\* A variant of is_solvable that never looks at the blank's row.
is_solvable_ignoresRow(pd) == Inversions(ListRemove(Flatten(pd), 0)) % 2 = 0

\* is_solvable, lines 4-27
is_solvable(pd) ==
    LET inversions == Inversions(ListRemove(Flatten(pd), 0))
    IN  IF Len(pd[1]) % 2 = 1
        THEN inversions % 2 = 0
        ELSE (inversions + (Len(pd) - BlankRow(pd) - 1)) % 2 = 0

----------------------------------------------------------------------------
(* class State, lines 29-91, and its helpers, lines 93-114                 *)

\* hash(tuple(flat)) is CPython's tuple hash (Objects/tupleobject.c, 64-bit
\* build): unsigned 64-bit arithmetic, here on words of four 16-bit limbs,
\* least significant first, because a 64-bit value does not fit an integer
\* of the model checker.
Limb == 65536

XXPRIME_1 == <<51847, 34283, 31153, 40503>>   \* 11400714785074694791
XXPRIME_2 == <<60239, 10196, 44605, 49842>>   \* 14029467366897019727
XXPRIME_5 == <<26565, 5718, 60207, 10196>>    \* 2870177450012600261

\* the int 0, the value of _hash that means "not computed"
Zero64 == <<0, 0, 0, 0>>

\* the carries of a word whose limbs ran over, modulo 2^64
Norm64(w) ==
    LET l2 == w[2] + (w[1] \div Limb)
        l3 == w[3] + (l2 \div Limb)
        l4 == w[4] + (l3 \div Limb)
    IN  <<w[1] % Limb, l2 % Limb, l3 % Limb, l4 % Limb>>

Add64(a, b) == Norm64(<<a[1] + b[1], a[2] + b[2], a[3] + b[3], a[4] + b[4]>>)

\* a * m for a small m: the hash of a tile value is the value itself
MulSmall64(a, m) == Norm64(<<a[1] * m, a[2] * m, a[3] * m, a[4] * m>>)

\* x * y for two limbs, y taken byte by byte so that no product runs over:
\* the part that stays in the limb's place (before the carries) and the part
\* that goes to the next limb
MulLo(x, y) == x * (y % 256) + ((x * (y \div 256)) % 256) * 256
MulHi(x, y) == (x * (y \div 256)) \div 256

Mul64(a, b) ==
    Norm64(<<MulLo(a[1], b[1]),
             MulLo(a[2], b[1]) + MulLo(a[1], b[2]) + MulHi(a[1], b[1]),
             MulLo(a[3], b[1]) + MulLo(a[2], b[2]) + MulLo(a[1], b[3])
               + MulHi(a[2], b[1]) + MulHi(a[1], b[2]),
             MulLo(a[4], b[1]) + MulLo(a[3], b[2]) + MulLo(a[2], b[3]) + MulLo(a[1], b[4])
               + MulHi(a[3], b[1]) + MulHi(a[2], b[2]) + MulHi(a[1], b[3])>>)

\* rotation to the left by 31 bits: by 32, then back by one
Rotl31(a) ==
    <<(a[3] \div 2) + (a[4] % 2) * 32768,
      (a[4] \div 2) + (a[1] % 2) * 32768,
      (a[1] \div 2) + (a[2] % 2) * 32768,
      (a[2] \div 2) + (a[3] % 2) * 32768>>

\* bitwise exclusive or of two naturals
RECURSIVE Xor(_, _)
Xor(a, b) ==
    IF a = 0 THEN b
    ELSE IF b = 0 THEN a
    ELSE ((a + b) % 2) + 2 * Xor(a \div 2, b \div 2)

\* one element of the tuple folded into the accumulator
Lane(acc, lane) == Mul64(Rotl31(Add64(acc, MulSmall64(XXPRIME_2, lane))), XXPRIME_1)

\* the loop over the elements from position k on; the singleton set makes the
\* accumulator a value before the next element is folded in
RECURSIVE Lanes(_, _, _)
Lanes(flat, k, acc) ==
    IF k > Len(flat) THEN acc
    ELSE CHOOSE r \in {Lanes(flat, k + 1, nxt) : nxt \in {Lane(acc, flat[k])}} : TRUE

\* XXPRIME_5 ^ 3527539 = 2870177450013471926
XXPRIME_5_XOR == <<46262, 5731, 60207, 10196>>

\* hash(tuple(flat)): acc += len ^ (XXPRIME_5 ^ 3527539) after the loop, and
\* the result -1 is replaced by 1546275796
TupleHash(flat) ==
    LET acc == Add64(Lanes(flat, 1, XXPRIME_5),
                     <<Xor(Len(flat), XXPRIME_5_XOR[1]), XXPRIME_5_XOR[2],
                       XXPRIME_5_XOR[3], XXPRIME_5_XOR[4]>>)
    IN  IF acc = <<65535, 65535, 65535, 65535>> THEN <<19412, 23594, 0, 0>> ELSE acc

\* Python's None where a State or None is held (prev, closed_list values).
None == [flat |-> <<>>, moveChar |-> "None", hash |-> Zero64, score |-> -1]

\* hash(x) as dict lookups and __eq__ call it: __hash__, lines 38-42
HashOf(s) ==
    IF s = None THEN Zero64
    ELSE IF s.hash = Zero64 THEN TupleHash(s.flat) ELSE s.hash

\* the object after hash(s) ran: the hash is cached
Hashed(s) == IF s = None THEN s ELSE [s EXCEPT !.hash = HashOf(s)]

\* __eq__, lines 44-49
StateEq(a, b) == HashOf(a) = HashOf(b)

\* index, lines 109-110
index(x, y, width) == y * width + x

\* from_index, lines 113-114
from_index(idx, width) == <<idx % width, idx \div width>>

\* the distance of tile value v (v >= 1) at 0-based index idx, lines 61-65
TileDist(v, idx, width) ==
    Abs(((v - 1) % width) - (idx % width)) + Abs(((v - 1) \div width) - (idx \div width))

\* the loop of lines 54-65
FullScore(flat, width) ==
    SumSeq([k \in 1..Len(flat) |->
              IF flat[k] = 0 THEN 0 ELSE TileDist(flat[k], k - 1, width)])

\* score's return value, lines 51-66
ScoreOf(s, width) == IF s.score = -1 THEN FullScore(s.flat, width) ELSE s.score

\* the object after score(width) ran: the score is cached
Scored(s, width) == [s EXCEPT !.score = ScoreOf(s, width)]

\* A variant of move that forgets to add the tile's distance at its new place.
move_noAdd(s, char, x, y, dx, dy, width) ==
    LET blankIdx == index(x, y, width)
        k        == index(x + dx, y + dy, width)
        item     == s.flat[k + 1]
    IN  [flat     |-> [s.flat EXCEPT ![blankIdx + 1] = item, ![k + 1] = 0],
         moveChar |-> char,
         hash     |-> Zero64,
         score    |-> s.score - TileDist(item, k, width)]

\* A variant of move that leaves the moved tile in its old cell as well.
move_noClear(s, char, x, y, dx, dy, width) ==
    LET blankIdx == index(x, y, width)
        k        == index(x + dx, y + dy, width)
        item     == s.flat[k + 1]
    IN  [flat     |-> [s.flat EXCEPT ![blankIdx + 1] = item],
         moveChar |-> char,
         hash     |-> Zero64,
         score    |-> s.score - TileDist(item, k, width) + TileDist(item, blankIdx, width)]

\* move, lines 68-91
move(s, char, x, y, dx, dy, width) ==
    LET blankIdx == index(x, y, width)
        k        == index(x + dx, y + dy, width)
        item     == s.flat[k + 1]
    IN  [flat     |-> [s.flat EXCEPT ![blankIdx + 1] = item, ![k + 1] = 0],
         moveChar |-> char,
         hash     |-> Zero64,
         score    |-> s.score - TileDist(item, k, width) + TileDist(item, blankIdx, width)]

\* make_state, lines 95-98, with the class defaults of lines 31-33
make_state(pd) == [flat |-> Flatten(pd), moveChar |-> "", hash |-> Zero64, score |-> -1]

\* clone, lines 101-106: moveChar is not copied
clone(s) == [flat |-> s.flat, moveChar |-> "", hash |-> s.hash, score |-> s.score]

----------------------------------------------------------------------------
(* make_path and info_for, lines 117-137, and the dict and heap they use    *)

\* "s in closed_list": a dict lookup finds a key with the same hash that
\* is the same object or __eq__-equal, and __eq__ compares hashes
InClosed(cl, s) == \E e \in cl : StateEq(e.key, s)

\* closed_list[s], for s in closed_list
ClosedGet(cl, s) == (CHOOSE e \in cl : StateEq(e.key, s)).val

\* A variant of the assignment that stores the key as its own predecessor.
ClosedSet_selfLoop(cl, k, v) == cl \cup {[key |-> k, val |-> k]}

\* closed_list[k] = v: a new entry, or a new value under the key already there
ClosedSet(cl, k, v) ==
    IF InClosed(cl, k)
    THEN {IF StateEq(e.key, k) THEN [e EXCEPT !.val = v] ELSE e : e \in cl}
    ELSE cl \cup {[key |-> k, val |-> v]}

\* the while loop of lines 122-124: the moveChars from cur back to the start
RECURSIVE PathBack(_, _)
PathBack(cl, cur) ==
    IF InClosed(cl, cur)
    THEN <<cur.moveChar>> \o PathBack(cl, ClosedGet(cl, cur))
    ELSE <<>>

\* A variant of make_path that returns the whole list, placeholder included.
make_path_keepFirst(end, prv, cl) == Reverse(PathBack(cl, prv)) \o <<end.moveChar>>

\* A variant of make_path that drops two elements from the front.
make_path_dropTwo(end, prv, cl) ==
    LET path == Reverse(PathBack(cl, prv)) \o <<end.moveChar>>
    IN  SubSeq(path, 3, Len(path))

\* make_path, lines 117-129
make_path(end, prv, cl) ==
    LET path == Reverse(PathBack(cl, prv)) \o <<end.moveChar>>
    IN  SubSeq(path, 2, Len(path))

\* A variant of info_for whose total score leaves out the distance from the
\* start.
info_for_greedy(a, prv, width, d, n) ==
    <<ScoreOf(a, width), d + 1, n, Scored(a, width), prv>>

\* info_for, lines 136-137
info_for(a, prv, width, d, n) ==
    <<d + 1 + ScoreOf(a, width), d + 1, n, Scored(a, width), prv>>

\* A variant of the comparison that prefers the larger g.
EntryLess_deepestFirst(a, b) ==
    \/ a[2] > b[2]
    \/ a[2] = b[2] /\ a[3] < b[3]

\* tuple comparison of two heap entries; the counter in position 3 is unique,
\* so the States in positions 4 and 5 are never compared
EntryLess(a, b) ==
    \/ a[1] < b[1]
    \/ a[1] = b[1] /\ a[2] < b[2]
    \/ a[1] = b[1] /\ a[2] = b[2] /\ a[3] < b[3]

\* heapq.heappop returns the smallest entry of the heap
HeapMin(ol) == CHOOSE e \in ol : \A o \in ol : o = e \/ EntryLess(e, o)

----------------------------------------------------------------------------
(* solve, lines 140-219                                                    *)

\* the four candidate moves in the order of lines 173-213
Moves == << [char |-> "U", dx |-> 0,  dy |-> 1],
            [char |-> "D", dx |-> 0,  dy |-> -1],
            [char |-> "L", dx |-> 1,  dy |-> 0],
            [char |-> "R", dx |-> -1, dy |-> 0] >>

\* A variant of the bounds tests whose L test is off by one.
InBounds_offByOne(char, x, y, height, width) ==
    CASE char = "U" -> y < height - 1
      [] char = "D" -> y > 0
      [] char = "L" -> x <= width - 1
      [] char = "R" -> x > 0

\* the bounds tests of lines 174, 185, 196, 206
InBounds(char, x, y, height, width) ==
    CASE char = "U" -> y < height - 1
      [] char = "D" -> y > 0
      [] char = "L" -> x < width - 1
      [] char = "R" -> x > 0

\* A variant of the expansion that does not keep the incremented counter.
RECURSIVE Expand_noIncrement(_, _, _, _, _, _, _, _, _)
Expand_noIncrement(k, ol, n, a, d, x, y, height, width) ==
    IF k > Len(Moves) THEN [open |-> ol, i |-> n]
    ELSE
      LET m     == Moves[k]
          child == Hashed(move(clone(a), m.char, x, y, m.dx, m.dy, width))
      IN  IF InBounds(m.char, x, y, height, width) /\ ~InClosed(closed_list, child)
          THEN Expand_noIncrement(k + 1, ol \cup {info_for(child, a, width, d, n + 1)},
                                  n, a, d, x, y, height, width)
          ELSE Expand_noIncrement(k + 1, ol, n, a, d, x, y, height, width)

\* A variant of the expansion that pushes a successor without looking it up
\* in the closed list.
RECURSIVE Expand_noClosedCheck(_, _, _, _, _, _, _, _, _)
Expand_noClosedCheck(k, ol, n, a, d, x, y, height, width) ==
    IF k > Len(Moves) THEN [open |-> ol, i |-> n]
    ELSE
      LET m     == Moves[k]
          child == Hashed(move(clone(a), m.char, x, y, m.dx, m.dy, width))
      IN  IF InBounds(m.char, x, y, height, width)
          THEN Expand_noClosedCheck(k + 1, ol \cup {info_for(child, a, width, d, n + 1)},
                                    n + 1, a, d, x, y, height, width)
          ELSE Expand_noClosedCheck(k + 1, ol, n, a, d, x, y, height, width)

\* lines 173-213 from candidate k on: the open list and counter after the
\* remaining candidates were cloned, moved and pushed
RECURSIVE Expand(_, _, _, _, _, _, _, _, _)
Expand(k, ol, n, a, d, x, y, height, width) ==
    IF k > Len(Moves) THEN [open |-> ol, i |-> n]
    ELSE
      LET m     == Moves[k]
          child == Hashed(move(clone(a), m.char, x, y, m.dx, m.dy, width))
      IN  IF InBounds(m.char, x, y, height, width) /\ ~InClosed(closed_list, child)
          THEN Expand(k + 1, ol \cup {info_for(child, a, width, d, n + 1)}, n + 1,
                      a, d, x, y, height, width)
          ELSE Expand(k + 1, ol, n, a, d, x, y, height, width)

height == Len(puzzle_data)
width  == Len(puzzle_data[1])

Terminal == {"UNSOLVABLE", "ALREADY_SOLVED", "GOAL_FOUND", "FRONTIER_EXHAUSTED"}

StateOpsIdle == UNCHANGED <<objs, bufOf, nops, fromSolved, nmoves>>

\* lines 142-143
ReturnUnsolvable ==
    /\ pc = "solve"
    /\ ~is_solvable(puzzle_data)
    /\ pc' = "UNSOLVABLE"
    /\ result' = {}
    /\ UNCHANGED <<puzzle_data, i, closed_list, open_list, active, prev, dist>>
    /\ StateOpsIdle

\* lines 142-152
ReturnSolved ==
    /\ pc = "solve"
    /\ is_solvable(puzzle_data)
    /\ ScoreOf(make_state(puzzle_data), width) = 0
    /\ pc' = "ALREADY_SOLVED"
    /\ result' = {<<>>}
    /\ UNCHANGED <<puzzle_data, i, closed_list, open_list, active, prev, dist>>
    /\ StateOpsIdle

\* lines 142-159
StartSearch ==
    /\ pc = "solve"
    /\ is_solvable(puzzle_data)
    /\ ScoreOf(make_state(puzzle_data), width) # 0
    /\ pc' = "loop"
    /\ i' = 0
    /\ closed_list' = {}
    /\ open_list' = {<<0, 0, 0, Scored(make_state(puzzle_data), width), None>>}
    /\ UNCHANGED <<puzzle_data, active, prev, dist, result>>
    /\ StateOpsIdle

\* A variant of the skip that leaves the skipped entry in the open list.
PopSkip_keepsEntry ==
    /\ pc = "loop"
    /\ open_list # {}
    /\ \E e \in {HeapMin(open_list)} :
           /\ InClosed(closed_list, e[4])
           /\ open_list' = open_list
           /\ dist' = e[2]
           /\ active' = Hashed(e[4])
           /\ prev' = e[5]
    /\ UNCHANGED <<puzzle_data, pc, i, closed_list, result>>
    /\ StateOpsIdle

\* lines 161-165: a popped entry whose state is already closed is dropped
PopSkip ==
    /\ pc = "loop"
    /\ open_list # {}
    /\ \E e \in {HeapMin(open_list)} :
           /\ InClosed(closed_list, e[4])
           /\ open_list' = open_list \ {e}
           /\ dist' = e[2]
           /\ active' = Hashed(e[4])
           /\ prev' = e[5]
    /\ UNCHANGED <<puzzle_data, pc, i, closed_list, result>>
    /\ StateOpsIdle

\* lines 161-169: a popped goal state ends the search
PopGoal ==
    /\ pc = "loop"
    /\ open_list # {}
    /\ \E e \in {HeapMin(open_list)} :
           /\ ~InClosed(closed_list, e[4])
           /\ ScoreOf(e[4], width) = 0
           /\ open_list' = open_list \ {e}
           /\ dist' = e[2]
           /\ active' = Hashed(e[4])
           /\ prev' = e[5]
           /\ result' = {make_path(Hashed(e[4]), e[5], closed_list)}
    /\ pc' = "GOAL_FOUND"
    /\ UNCHANGED <<puzzle_data, i, closed_list>>
    /\ StateOpsIdle

\* lines 161-216: a popped state is expanded and closed
PopExpand ==
    /\ pc = "loop"
    /\ open_list # {}
    /\ LET e  == HeapMin(open_list)
           a  == Hashed(e[4])
           xy == from_index(ListIndex(a.flat, 0), width)
           r  == Expand(1, open_list \ {e}, i, a, e[2], xy[1], xy[2], height, width)
       IN  /\ ~InClosed(closed_list, e[4])
           /\ ScoreOf(e[4], width) # 0
           /\ open_list' = r.open
           /\ i' = r.i
           /\ closed_list' = ClosedSet(closed_list, a, e[5])
           /\ dist' = e[2]
           /\ active' = a
           /\ prev' = e[5]
    /\ UNCHANGED <<puzzle_data, pc, result>>
    /\ StateOpsIdle

\* A variant of the last return that gives an empty list instead of None.
Exhausted_returnsEmpty ==
    /\ pc = "loop"
    /\ open_list = {}
    /\ pc' = "FRONTIER_EXHAUSTED"
    /\ result' = {<<>>}
    /\ UNCHANGED <<puzzle_data, i, closed_list, open_list, active, prev, dist>>
    /\ StateOpsIdle

\* lines 161, 218-219
Exhausted ==
    /\ pc = "loop"
    /\ open_list = {}
    /\ pc' = "FRONTIER_EXHAUSTED"
    /\ result' = {}
    /\ UNCHANGED <<puzzle_data, i, closed_list, open_list, active, prev, dist>>
    /\ StateOpsIdle

----------------------------------------------------------------------------
(* The inputs: every valid configuration of every grid of at most MaxCells  *)
(* cells                                                                   *)

Dims == {d \in (1..MaxCells) \X (1..MaxCells) : d[1] * d[2] <= MaxCells}

RECURSIVE Perms(_)
Perms(S) ==
    IF S = {} THEN {<<>>}
    ELSE UNION {{<<v>> \o p : p \in Perms(S \ {v})} : v \in S}

Grid(flat, h, w) == [r \in 1..h |-> [c \in 1..w |-> flat[(r - 1) * w + c]]]

AllPuzzles ==
    UNION {{Grid(p, d[1], d[2]) : p \in Perms(0..(d[1] * d[2] - 1))} : d \in Dims}

Init ==
    /\ puzzle_data \in AllPuzzles
    /\ pc = "solve"
    /\ i = 0
    /\ closed_list = {}
    /\ open_list = {}
    /\ active = None
    /\ prev = None
    /\ dist = 0
    /\ result = {}
    /\ objs = <<>>
    /\ bufOf = <<>>
    /\ nops = 0
    /\ fromSolved = FALSE
    /\ nmoves = 0

Next ==
    \/ ReturnUnsolvable
    \/ ReturnSolved
    \/ StartSearch
    \/ PopSkip
    \/ PopGoal
    \/ PopExpand
    \/ Exhausted

Spec == Init /\ [][Next]_vars

\* the caller before the call of solve: no argument is bound yet
InitCall ==
    /\ puzzle_data = <<>>
    /\ pc = "call"
    /\ i = 0
    /\ closed_list = {}
    /\ open_list = {}
    /\ active = None
    /\ prev = None
    /\ dist = 0
    /\ result = {}
    /\ objs = <<>>
    /\ bufOf = <<>>
    /\ nops = 0
    /\ fromSolved = FALSE
    /\ nmoves = 0

\* line 140: solve is entered with some grid
Call ==
    /\ pc = "call"
    /\ puzzle_data' \in AllPuzzles
    /\ pc' = "solve"
    /\ UNCHANGED <<i, closed_list, open_list, active, prev, dist, result>>
    /\ StateOpsIdle

NextCall ==
    \/ Call
    \/ Next

\* the statements of solve that only test and assign
Straight ==
    \/ Call
    \/ ReturnUnsolvable
    \/ ReturnSolved
    \/ StartSearch
    \/ PopSkip
    \/ Exhausted

\* lines 161-165 let the popped state through: it is not closed
PoppedIsOpen ==
    /\ pc = "loop"
    /\ open_list # {}
    /\ ~InClosed(closed_list, HeapMin(open_list)[4])

\* the guard of PopGoal, which always changes pc
CanFinish == PoppedIsOpen /\ ScoreOf(HeapMin(open_list)[4], width) = 0

\* the guard of PopExpand, which always adds an entry to closed_list
CanExpand == PoppedIsOpen /\ ScoreOf(HeapMin(open_list)[4], width) # 0

\* solve runs in one thread without waiting: a statement that can execute
\* does. For PopGoal and PopExpand this is weak fairness written out, with
\* the action's guard for ENABLED <<A>>_vars.
SpecFair ==
    /\ InitCall
    /\ [][NextCall]_vars
    /\ WF_vars(Straight)
    /\ ([]<>~CanFinish \/ []<><<PopGoal>>_vars)
    /\ ([]<>~CanExpand \/ []<><<PopExpand>>_vars)

----------------------------------------------------------------------------
(* The State operations on their own: make_state, then clone, score and    *)
(* legal moves in any order, as a caller of the class may apply them        *)

SolveIdle == UNCHANGED <<pc, i, closed_list, open_list, active, prev, dist, result>>

\* two 5x5 grids whose flat lists have the same tuple hash
CollisionA ==
    Grid(<<6, 10, 0, 23, 21, 8, 18, 20, 4, 19, 17, 2, 1, 14, 22, 3, 5, 7, 9, 11,
           12, 13, 15, 16, 24>>, 5, 5)
CollisionB ==
    Grid(<<6, 13, 15, 22, 10, 9, 11, 17, 0, 21, 1, 24, 2, 19, 3, 7, 4, 5, 8, 12,
           14, 16, 18, 20, 23>>, 5, 5)

OpPuzzles ==
    {pd \in AllPuzzles : Len(pd) * Len(pd[1]) <= MaxOpCells} \cup {CollisionA, CollisionB}

\* the grids of puzzle_data's shape that a further make_state is given
MakeGrids ==
    {puzzle_data} \cup {pd \in {CollisionA, CollisionB} : Len(pd) = Len(puzzle_data)}

\* a list object that is none of the existing ones
NewBuf(b) == Len(b) + 1

\* A variant of the copy that hands back the list it was asked to copy.
CopyBuf_shared(b, k) == b[k]

\* start.flat.copy(), line 103: a new list object
CopyBuf(b, k) == NewBuf(b)

\* make_state(puzzle_data), lines 95-98
InitState ==
    /\ puzzle_data \in OpPuzzles
    /\ pc = "ops"
    /\ i = 0
    /\ closed_list = {}
    /\ open_list = {}
    /\ active = None
    /\ prev = None
    /\ dist = 0
    /\ result = {}
    /\ objs = <<make_state(puzzle_data)>>
    /\ bufOf = <<1>>
    /\ nops = 0
    /\ fromSolved = FALSE
    /\ nmoves = 0

\* objs.append(make_state(g)), lines 95-98
OpMake(g) ==
    /\ pc = "ops"
    /\ nops < MaxOps
    /\ Len(objs) < MaxObjs
    /\ objs' = Append(objs, make_state(g))
    /\ bufOf' = Append(bufOf, NewBuf(bufOf))
    /\ nops' = nops + 1
    /\ UNCHANGED <<puzzle_data, fromSolved, nmoves>>
    /\ SolveIdle

\* objs.append(clone(objs[k])), lines 101-106
OpClone(k) ==
    /\ nops < MaxOps
    /\ Len(objs) < MaxObjs
    /\ objs' = Append(objs, clone(objs[k]))
    /\ bufOf' = Append(bufOf, CopyBuf(bufOf, k))
    /\ nops' = nops + 1
    /\ UNCHANGED <<puzzle_data, fromSolved, nmoves>>
    /\ SolveIdle

\* objs[k].score(width), lines 51-66
OpScore(k) ==
    /\ nops < MaxOps
    /\ objs' = [objs EXCEPT ![k] = Scored(objs[k], width)]
    /\ nops' = nops + 1
    /\ UNCHANGED <<puzzle_data, bufOf, fromSolved, nmoves>>
    /\ SolveIdle

\* hash(objs[k]), lines 38-42
OpHash(k) ==
    /\ nops < MaxOps
    /\ objs' = [objs EXCEPT ![k] = Hashed(objs[k])]
    /\ nops' = nops + 1
    /\ UNCHANGED <<puzzle_data, bufOf, fromSolved, nmoves>>
    /\ SolveIdle

\* objs[k].move(...) for an in-bounds candidate, as lines 171-213 call it;
\* the swap of lines 89-90 is seen through every State whose flat attribute
\* is the same list object
OpMove(k, m) ==
    /\ nops < MaxOps
    /\ LET xy    == from_index(ListIndex(objs[k].flat, 0), width)
           moved == move(objs[k], m.char, xy[1], xy[2], m.dx, m.dy, width)
       IN  /\ InBounds(m.char, xy[1], xy[2], height, width)
           /\ objs' = [j \in 1..Len(objs) |->
                         IF j = k THEN moved
                         ELSE IF bufOf[j] = bufOf[k]
                              THEN [objs[j] EXCEPT !.flat = moved.flat]
                              ELSE objs[j]]
    /\ nops' = nops + 1
    /\ UNCHANGED <<puzzle_data, bufOf, fromSolved, nmoves>>
    /\ SolveIdle

NextState ==
    \/ \E g \in MakeGrids : OpMake(g)
    \/ \E k \in 1..Len(objs) : OpClone(k)
    \/ \E k \in 1..Len(objs) : OpScore(k)
    \/ \E k \in 1..Len(objs) : OpHash(k)
    \/ \E k \in 1..Len(objs) : \E n \in 1..Len(Moves) : OpMove(k, Moves[n])

SpecState == InitState /\ [][NextState]_vars

\* a run of solve, or a run of State operations
SpecBoth == (Init \/ InitState) /\ [][Next \/ NextState]_vars

----------------------------------------------------------------------------
(* Shuffling a grid by legal single-tile moves, with is_solvable asked of  *)
(* every grid on the way                                                   *)

\* the solved grid 1, 2, ..., n-1, 0 of h rows and w columns
Solved(h, w) == Grid([k \in 1..(h * w) |-> IF k = h * w THEN 0 ELSE k], h, w)

InitShuffle ==
    /\ puzzle_data \in AllPuzzles
    /\ pc = "shuffle"
    /\ i = 0
    /\ closed_list = {}
    /\ open_list = {}
    /\ active = None
    /\ prev = None
    /\ dist = 0
    /\ result = {}
    /\ objs = <<>>
    /\ bufOf = <<>>
    /\ nops = 0
    /\ fromSolved = (puzzle_data = Solved(height, width))
    /\ nmoves = 0

\* one legal move of the grid, made with make_state and State.move
Shuffle(m) ==
    /\ LET s  == make_state(puzzle_data)
           xy == from_index(ListIndex(s.flat, 0), width)
       IN  /\ InBounds(m.char, xy[1], xy[2], height, width)
           /\ puzzle_data' =
                Grid(move(s, m.char, xy[1], xy[2], m.dx, m.dy, width).flat, height, width)
    /\ nmoves' = (nmoves + 1) % 2
    /\ UNCHANGED <<objs, bufOf, nops, fromSolved>>
    /\ SolveIdle

NextShuffle == \E n \in 1..Len(Moves) : Shuffle(Moves[n])

SpecShuffle == InitShuffle /\ [][NextShuffle]_vars

----------------------------------------------------------------------------
(* The puzzle itself, stated without the solver: the goal, the legal moves  *)
(* and breadth-first distances in the graph of legal moves                  *)

GoalFlat(n) == [k \in 1..n |-> IF k = n THEN 0 ELSE k]

BlankAt(flat) == CHOOSE k \in 1..Len(flat) : flat[k] = 0

\* 1-based position of the tile that move c slides into the blank, 0 when
\* the move is not legal: U takes the tile below the blank, D the tile
\* above, L the tile to the right, R the tile to the left
SlideFrom(flat, c, h, w) ==
    LET b   == BlankAt(flat)
        row == (b - 1) \div w
        col == (b - 1) % w
    IN  CASE c = "U" /\ row < h - 1 -> b + w
          [] c = "D" /\ row > 0     -> b - w
          [] c = "L" /\ col < w - 1 -> b + 1
          [] c = "R" /\ col > 0     -> b - 1
          [] OTHER                  -> 0

Slide(flat, c, h, w) ==
    LET t == SlideFrom(flat, c, h, w)
    IN  [flat EXCEPT ![BlankAt(flat)] = flat[t], ![t] = 0]

\* the configuration after the moves of path, <<>> when one of them is not
\* one of U, D, L, R or is not legal where it is applied
RECURSIVE Play(_, _, _, _)
Play(flat, path, h, w) ==
    IF path = <<>> THEN flat
    ELSE IF SlideFrom(flat, Head(path), h, w) = 0 THEN <<>>
    ELSE Play(Slide(flat, Head(path), h, w), Tail(path), h, w)

Neighbours(flat, h, w) ==
    {Slide(flat, c, h, w) : c \in {c \in {"U", "D", "L", "R"} : SlideFrom(flat, c, h, w) # 0}}

\* breadth-first search backwards from the goal: layers[d + 1] is the set of
\* configurations from which the goal is d moves away and no fewer
RECURSIVE BfsLayers(_, _, _, _, _)
BfsLayers(layers, seen, all, h, w) ==
    LET last == layers[Len(layers)]
        nxt  == {f \in all \ seen : Neighbours(f, h, w) \cap last # {}}
    IN  IF nxt = {} THEN layers
        ELSE BfsLayers(Append(layers, nxt), seen \cup nxt, all, h, w)

\* the layers of every grid shape considered
GoalLayers ==
    {<<d, LET goal == GoalFlat(d[1] * d[2])
          IN  BfsLayers(<<{goal}>>, {goal}, Perms(0..(d[1] * d[2] - 1)), d[1], d[2])>> :
        d \in Dims}

LayersOf(h, w) == (CHOOSE e \in GoalLayers : e[1] = <<h, w>>)[2]

\* the breadth-first distance from flat to the goal, -1 when unreachable
BfsDist(flat, h, w) ==
    LET layers == LayersOf(h, w)
    IN  IF \E k \in 1..Len(layers) : flat \in layers[k]
        THEN (CHOOSE k \in 1..Len(layers) : flat \in layers[k]) - 1
        ELSE -1

\* the shortest distance from solve's input to the goal, -1 when unreachable
GoalDist == BfsDist(Flatten(puzzle_data), height, width)

Returned == pc \in Terminal

----------------------------------------------------------------------------
(* Properties of solve                                                      *)

\* C1: for every configuration from which the goal is reachable, solve
\* returns a list of moves, each legal where it is applied, that takes the
\* initial configuration to the goal 1, 2, ..., n-1, 0.
C1_SolutionReachesGoal ==
    (Returned /\ GoalDist >= 0) =>
        /\ result # {}
        /\ \A path \in result :
             Play(Flatten(puzzle_data), path, height, width) = GoalFlat(height * width)

C1_Witness ==
    /\ pc = "GOAL_FOUND"
    /\ height = 2 /\ width = 3
    /\ \E path \in result : Len(path) >= 5

\* C2: the returned list is as long as the breadth-first distance from the
\* initial configuration to the goal.
C2_SolutionIsShortest ==
    (Returned /\ GoalDist >= 0) =>
        /\ result # {}
        /\ \A path \in result : Len(path) = GoalDist

C2_Witness ==
    /\ pc = "GOAL_FOUND"
    /\ height * width = 6
    /\ GoalDist >= 10

\* C3: for every configuration from which the goal is not reachable, solve
\* returns None and never a list of moves.
C3_UnreachableGivesNone ==
    (Returned /\ GoalDist = -1) => result = {}

C3_Witness ==
    /\ Returned
    /\ GoalDist = -1
    /\ height = 2 /\ width = 2

\* C4: a configuration from which the goal is not reachable is refused by
\* is_solvable, on every grid including single rows and single columns, so
\* the search loop never ends by emptying the open list.
C4_UnsolvableNeverSearched ==
    Returned =>
        /\ GoalDist = -1 => (~is_solvable(puzzle_data) /\ pc = "UNSOLVABLE")
        /\ pc # "FRONTIER_EXHAUSTED"

\* C5: solve returns the empty list exactly when the initial configuration
\* is the goal; it does so before the open list exists, and a list returned
\* from the loop has at least one move.
C5_EmptyIffSolved ==
    Returned =>
        /\ (result = {<<>>}) <=> (Flatten(puzzle_data) = GoalFlat(height * width))
        /\ result = {<<>>} => (pc = "ALREADY_SOLVED" /\ open_list = {} /\ closed_list = {})
        /\ pc = "GOAL_FOUND" => \A path \in result : Len(path) >= 1

C5_Witness ==
    /\ pc = "ALREADY_SOLVED"
    /\ result = {<<>>}
    /\ height = 2 /\ width = 3

\* C6: a returned list holds only the characters U, D, L, R: the initial
\* state's empty moveChar is not in it, and a list returned from the loop has
\* as many characters as the g of the popped goal entry.
C6_OnlyMoveChars ==
    Returned =>
        \A path \in result :
            /\ \A k \in 1..Len(path) : path[k] \in {"U", "D", "L", "R"}
            /\ pc = "GOAL_FOUND" => Len(path) = dist

C6_Witness ==
    /\ pc = "GOAL_FOUND"
    /\ dist >= 3
    /\ \E path \in result : Len(path) = dist

\* C8 as claimed: for [[0, 1], [2, 3]] solve returns a list of one move that
\* reaches the goal and is as long as the breadth-first distance.
C8_OneMoveFrom0123 ==
    (Returned /\ puzzle_data = <<<<0, 1>>, <<2, 3>>>>) =>
        /\ result # {}
        /\ \A path \in result :
             /\ Len(path) = 1
             /\ Len(path) = GoalDist
             /\ Play(Flatten(puzzle_data), path, height, width) = GoalFlat(4)

\* C8 as amended: from [[0, 1], [2, 3]] the goal [[1, 2], [3, 0]] is not
\* reachable by legal moves; is_solvable refuses the grid and solve returns
\* None without searching.
C8_0123IsUnsolvable ==
    (Returned /\ puzzle_data = <<<<0, 1>>, <<2, 3>>>>) =>
        /\ GoalDist = -1
        /\ pc = "UNSOLVABLE"
        /\ result = {}

C8_Witness ==
    /\ Returned
    /\ puzzle_data = <<<<0, 1>>, <<2, 3>>>>

\* C10: every open-list entry (f, g, i, state, prev) has f = g + h, with h
\* the Manhattan sum of the state's flat list and g the number of moves on
\* the predecessor chain from the initial state, the initial entry included.
C10_FIsGPlusH ==
    \A e \in open_list :
        /\ e[1] = e[2] + FullScore(e[4].flat, width)
        /\ e[2] = Len(PathBack(closed_list, e[5]))

\* the configurations that have an entry in the closed list
ClosedFlats == {c.key.flat : c \in closed_list}

\* the number of moves on the predecessor chain of a closed state
Depth(cl, s) == Len(PathBack(cl, s)) - 1

\* the open-list entries pushed while the state just popped was expanded
ChildrenOfActive == {e \in open_list : e[5] = active /\ active # None}

LegalChars(flat) == {c \in {"U", "D", "L", "R"} : SlideFrom(flat, c, height, width) # 0}

\* C12: the search never moves a state backward: a configuration has at most
\* one entry in the closed list, an entry is never removed and its
\* predecessor never replaced, a successor whose configuration is closed is
\* never pushed, and nothing happens after GOAL_FOUND or FRONTIER_EXHAUSTED.
C12_NoBackwardTransition ==
    /\ [](\A c1, c2 \in closed_list : c1.key.flat = c2.key.flat => c1 = c2)
    /\ [][closed_list \subseteq closed_list']_vars
    /\ [][\A e \in open_list' \ open_list : e[4].flat \notin ClosedFlats]_vars
    /\ [][pc \notin Terminal]_vars

\* a state was expanded whose neighbour was closed already, so that fewer
\* successors were pushed than moves are legal
C12_Witness ==
    /\ pc = "loop"
    /\ active # None
    /\ [key |-> active, val |-> prev] \in closed_list
    /\ \E f \in Neighbours(active.flat, height, width) : f \in ClosedFlats
    /\ Cardinality(ChildrenOfActive) < Cardinality(LegalChars(active.flat))

\* C13: an entry that is popped and skipped because its configuration is
\* closed never has a smaller g than the entry that was expanded for that
\* configuration.
C13_SkippedNotCheaper ==
    /\ \A e \in open_list :
         InClosed(closed_list, e[4]) => Depth(closed_list, e[4]) <= e[2]
    /\ (pc = "loop" /\ active # None /\ InClosed(closed_list, active)) =>
         Depth(closed_list, active) <= dist

\* an entry was popped and skipped: its configuration had been expanded
\* from another predecessor
C13_Witness ==
    /\ pc = "loop"
    /\ active # None
    /\ InClosed(closed_list, active)
    /\ ClosedGet(closed_list, active) # prev
    /\ Depth(closed_list, active) <= dist

\* the move calls of lines 174-213 for a state: the candidates that pass the
\* bounds tests, with the blank's coordinates
MoveCalls(flat) ==
    LET xy == from_index(ListIndex(flat, 0), width)
    IN  {[char |-> Moves[k].char, x |-> xy[1], y |-> xy[2],
          dx |-> Moves[k].dx, dy |-> Moves[k].dy] :
            k \in {k \in 1..Len(Moves) :
                     InBounds(Moves[k].char, xy[1], xy[2], height, width)}}

CallsInGrid(flat) ==
    /\ \A c \in MoveCalls(flat) :
         /\ flat[index(c.x, c.y, width) + 1] = 0
         /\ 0 <= c.x + c.dx /\ c.x + c.dx < width
         /\ 0 <= c.y + c.dy /\ c.y + c.dy < height
         /\ index(c.x + c.dx, c.y + c.dy, width) \in 0..(height * width - 1)
         /\ Abs(c.dx) + Abs(c.dy) = 1
         /\ c.dy = 0 => index(c.x + c.dx, c.y + c.dy, width) \div width = c.y
    /\ {c.char : c \in MoveCalls(flat)} = LegalChars(flat)

\* C14: solve calls move only for a cell inside the grid next to the blank:
\* the blank is at (x, y), 0 <= x + dx < width and 0 <= y + dy < height, an
\* L or R move stays in its row, and for an expanded state exactly the legal
\* directions are generated.
C14_MovesStayInGrid ==
    /\ (pc = "loop" /\ open_list # {}) => CallsInGrid(HeapMin(open_list)[4].flat)
    /\ (pc = "loop" /\ active # None) =>
         /\ CallsInGrid(active.flat)
         /\ \A e \in ChildrenOfActive :
              /\ e[4].moveChar \in LegalChars(active.flat)
              /\ e[4].flat = Slide(active.flat, e[4].moveChar, height, width)

\* a state with the blank in a corner of a 2x3 grid was expanded
C14_Witness ==
    /\ pc = "loop"
    /\ height = 2 /\ width = 3
    /\ active # None
    /\ active.flat[3] = 0
    /\ Cardinality(ChildrenOfActive) >= 1
    /\ Cardinality(MoveCalls(active.flat)) = 2

\* how often each value occurs in a flat list
CountsOf(flat) ==
    {<<v, ListCount(flat, v)>> : v \in 0..(height * width - 1)}

IsConfiguration(flat, counts) ==
    /\ Len(flat) = height * width
    /\ CountsOf(flat) = counts

\* C15: every State in the open list or the closed list has a flat list
\* that is a permutation of the initial configuration: the same values, and
\* exactly one 0.
C15_FlatIsPermutation ==
    LET counts  == CountsOf(Flatten(puzzle_data))
        queued  == {e[4].flat : e \in open_list} \cup
                     {c.key.flat : c \in closed_list}
        parents == {e[5].flat : e \in {e \in open_list : e[5] # None}} \cup
                     {c.val.flat : c \in {c \in closed_list : c.val # None}}
    IN  /\ \A flat \in queued \cup parents : IsConfiguration(flat, counts)
        /\ \A flat \in queued : ListCount(flat, 0) = 1

C15_Witness ==
    /\ pc = "loop"
    /\ Cardinality(closed_list) >= 10
    /\ Cardinality(open_list) >= 5

\* lexicographic order of the triples (f, g, sequence number)
LexLess(a, b) ==
    IF a[1] # b[1] THEN a[1] < b[1]
    ELSE IF a[2] # b[2] THEN a[2] < b[2]
    ELSE a[3] < b[3]

\* C17: the counter gives every pushed entry its own sequence number, larger
\* than all earlier ones (the initial entry has 0), so (f, g, sequence number)
\* orders the open list strictly and totally; each pop removes the
\* lexicographically smallest entry, the earliest pushed among equal f and g.
C17_CounterOrdersHeap ==
    /\ [](\A e1, e2 \in open_list :
            /\ e1[3] = e2[3] => e1 = e2
            /\ e1[3] <= i
            /\ e1 # e2 => (LexLess(e1, e2) /\ ~LexLess(e2, e1))
                            \/ (LexLess(e2, e1) /\ ~LexLess(e1, e2)))
    /\ [][/\ i' >= i
          /\ \A e \in open_list' \ open_list :
               pc = "loop" => (e[3] > i /\ e[3] <= i')]_vars
    /\ [][\A e \in open_list \ open_list' :
            /\ \A o \in open_list : o # e => LexLess(e, o)
            /\ active' = Hashed(e[4])
            /\ dist' = e[2]]_vars

\* an entry was popped while another entry with the same f and g, pushed
\* later, stayed in the open list
C17_Witness ==
    /\ pc = "loop"
    /\ active # None
    /\ prev # None
    /\ \E o \in open_list :
         /\ o[2] = dist
         /\ o[1] = dist + ScoreOf(active, width)
         /\ o[3] <= i

\* C18: solve terminates for every valid configuration: a return statement
\* is reached, a pop and its expansion add at most four entries less the one
\* popped, and every expansion closes a configuration that was not closed.
C18_SolveTerminates ==
    /\ <>(pc \in Terminal)
    /\ [][Cardinality(open_list') <= Cardinality(open_list) + 3]_vars
    /\ [][(pc = "loop" /\ pc' = "loop" /\ Cardinality(open_list') >= Cardinality(open_list)) =>
            Cardinality(closed_list') = Cardinality(closed_list) + 1]_vars

\* a search of at least twenty expansions and thirty pushes has returned
C18_Witness ==
    /\ pc \in {"GOAL_FOUND", "FRONTIER_EXHAUSTED"}
    /\ Cardinality(closed_list) >= 20
    /\ i >= 30

\* C11: two States compare equal if and only if their flat lists are equal,
\* after any sequence of make_state, clone, score, hash and move; States with
\* different flat lists are never the same key of a dict, and a cached hash
\* is the hash of the current flat list.
C11_EqualIffSameFlat ==
    \A j, k \in 1..Len(objs) :
        /\ StateEq(objs[j], objs[k]) <=> objs[j].flat = objs[k].flat
        /\ InClosed({[key |-> objs[j], val |-> None]}, objs[k]) =>
             objs[j].flat = objs[k].flat
        /\ objs[j].hash # Zero64 => objs[j].hash = TupleHash(objs[j].flat)

\* the States other than the one an operation was applied to are as before
OthersUntouched ==
    /\ Len(objs') >= Len(objs)
    /\ Cardinality({j \in 1..Len(objs) : objs'[j] # objs[j]}) <= 1
    /\ Len(objs') > Len(objs) => \A j \in 1..Len(objs) : objs'[j] = objs[j]

\* C16 as stated: a clone is an independent copy, so that a move, score or
\* hash of one State changes no other and cloning changes none; and during
\* solve a State popped from the open list is as it was pushed, and a closed
\* entry stays as it was inserted.
C16_NeverModifiedAfterPush ==
    /\ [][pc = "ops" => OthersUntouched]_vars
    /\ [][pc = "loop" =>
            /\ \A e \in open_list \ open_list' : active' = e[4] /\ prev' = e[5]
            /\ closed_list \subseteq closed_list']_vars

\* C16, amended: as above, except that a State pushed without a cached hash,
\* which only the initial state is, has its hash cached when it is popped;
\* its flat list, score and moveChar are as pushed, and a hash once cached
\* is never changed.
C16_CloneIsIndependent ==
    /\ [][pc = "ops" => OthersUntouched]_vars
    /\ [][pc = "loop" =>
            /\ \A e \in open_list \ open_list' :
                 /\ [active' EXCEPT !.hash = e[4].hash] = e[4]
                 /\ e[4].hash # Zero64 => active' = e[4]
                 /\ e[4].hash = Zero64 => e[5] = None /\ active'.hash = TupleHash(e[4].flat)
                 /\ prev' = e[5]
            /\ closed_list \subseteq closed_list']_vars

\* a clone was moved, and the State it was cloned from still has its own
\* flat list, no moveChar and a score of its own
C16_Witness ==
    /\ pc = "ops"
    /\ \E j, k \in 1..Len(objs) :
         /\ j < k
         /\ bufOf[j] # bufOf[k]
         /\ objs[j].moveChar = "" /\ objs[k].moveChar # ""
         /\ objs[j].flat = Flatten(puzzle_data)
         /\ objs[k].flat # objs[j].flat

\* the States that are keys of the closed list
ClosedKeys(cl) == {c.key : c \in cl}

\* how many predecessor links lead from s to the initial state, whose
\* predecessor is None; -1 when a link leaves the closed list or when more
\* than fuel links are followed
RECURSIVE LinksToRoot(_, _, _)
LinksToRoot(cl, s, fuel) ==
    IF s = None THEN 0
    ELSE IF fuel = 0 \/ s \notin ClosedKeys(cl) THEN -1
    ELSE LET rest == LinksToRoot(cl, (CHOOSE c \in cl : c.key = s).val, fuel - 1)
         IN  IF rest = -1 THEN -1 ELSE rest + 1

\* C19: the predecessor of a popped entry is None, for the initial state
\* only, or a key of the closed list; every entry added to the closed list
\* has as predecessor None, if it is the initial state, or a state closed
\* before from which the move named by its moveChar leads to it; and the
\* predecessor links from an expanded state reach the initial state without
\* a cycle.
C19_ClosedListIsTree ==
    /\ []((pc = "loop" /\ active \in ClosedKeys(closed_list)) =>
            LinksToRoot(closed_list, active, Cardinality(closed_list)) >= 1)
    /\ [][\A e \in open_list \ open_list' :
            /\ prev' = e[5]
            /\ prev' = None <=> active'.flat = Flatten(puzzle_data)
            /\ prev' # None => prev' \in ClosedKeys(closed_list)]_vars
    /\ [][\A c \in closed_list' \ closed_list :
            /\ c.key = active'
            /\ c.val = None <=> c.key.flat = Flatten(puzzle_data)
            /\ c.val # None =>
                 /\ c.val \in ClosedKeys(closed_list)
                 /\ c.key.moveChar \in LegalChars(c.val.flat)
                 /\ c.key.flat = Slide(c.val.flat, c.key.moveChar, height, width)]_vars
    /\ [][\A e \in open_list' \ open_list :
            pc = "loop" => e[5] \in ClosedKeys(closed_list')]_vars

\* a state four links from the initial state was expanded
C19_Witness ==
    /\ pc = "loop"
    /\ [key |-> active, val |-> prev] \in closed_list
    /\ LinksToRoot(closed_list, active, Cardinality(closed_list)) = 5
    /\ LinksToRoot(closed_list, prev, Cardinality(closed_list)) = 4

\* the configuration of n cells with the blank in cell b and the tiles
\* 1 .. n-1 in order in the other cells
StartRoot(n, b) == [k \in 1..n |-> IF k = b THEN 0 ELSE IF k < b THEN k ELSE k - 1]

\* breadth-first layers from StartRoot, for every grid shape and every cell
StartLayers ==
    UNION {{<<d, b, BfsLayers(<<{StartRoot(d[1] * d[2], b)}>>, {StartRoot(d[1] * d[2], b)},
                              Perms(0..(d[1] * d[2] - 1)), d[1], d[2])>> :
              b \in 1..(d[1] * d[2])} : d \in Dims}

\* flat with the tiles renamed so that start becomes StartRoot: the tile in
\* cell k of start is called StartRoot[k]
Renamed(start, flat) ==
    LET root == StartRoot(Len(start), BlankAt(start))
    IN  [k \in 1..Len(flat) |->
           root[CHOOSE p \in 1..Len(start) : start[p] = flat[k]]]

\* the least number of legal moves from solve's input to flat, -1 when there
\* is no way; renaming the tiles changes no distance
DistFromStart(flat) ==
    LET start  == Flatten(puzzle_data)
        layers == (CHOOSE e \in StartLayers :
                     e[1] = <<height, width>> /\ e[2] = BlankAt(start))[3]
        r      == Renamed(start, flat)
    IN  IF \E k \in 1..Len(layers) : r \in layers[k]
        THEN (CHOOSE k \in 1..Len(layers) : r \in layers[k]) - 1
        ELSE -1

\* C20: when a state is expanded, or popped as the goal, the g of its entry
\* is the least number of moves from the initial configuration to it; and no
\* entry left in or added to the open list at a pop has a smaller f than the
\* popped one, so the f of successive pops never decreases.
C20_GIsShortestDistance ==
    /\ []((pc = "loop" /\ [key |-> active, val |-> prev] \in closed_list) =>
            dist = DistFromStart(active.flat))
    /\ [](pc = "GOAL_FOUND" => dist = DistFromStart(active.flat))
    /\ [][\A e \in open_list \ open_list' : \A o \in open_list' : o[1] >= e[1]]_vars

\* a state six moves from the initial configuration was expanded after a
\* costlier way to it had been pushed as well
C20_Witness ==
    /\ pc = "loop"
    /\ [key |-> active, val |-> prev] \in closed_list
    /\ dist = 6
    /\ DistFromStart(active.flat) = 6
    /\ \E o \in open_list : o[4].flat = active.flat

----------------------------------------------------------------------------
(* Properties of is_solvable under shuffling                                *)

\* C7: a legal move never changes the value of is_solvable, on any grid, and
\* every grid an even number of legal moves away from the solved grid is
\* classified solvable.
C7_MovesKeepSolvability ==
    /\ [][is_solvable(puzzle_data') = is_solvable(puzzle_data)]_vars
    /\ []((fromSolved /\ nmoves = 0) => is_solvable(puzzle_data))

C7_Witness ==
    /\ fromSolved
    /\ nmoves = 0
    /\ height = 2 /\ width = 2
    /\ puzzle_data # Solved(height, width)
    /\ is_solvable(puzzle_data)

----------------------------------------------------------------------------
(* Properties of the State operations                                       *)

\* C9: after any sequence of make_state, clone, score and legal moves, with
\* score called at any points or not at all, score(width) returns the
\* Manhattan sum recomputed from the current flat list, and so returns 0
\* exactly when the flat list is the goal.
C9_ScoreIsExact ==
    \A k \in 1..Len(objs) :
        /\ ScoreOf(objs[k], width) = FullScore(objs[k].flat, width)
        /\ (ScoreOf(objs[k], width) = 0) <=> (objs[k].flat = GoalFlat(height * width))

====
